---- MODULE Spec2Model ----
(***************************************************************************)
(* Model of blender_svg_glyphs_to_gltf.py: a batch driver that, for every  *)
(* SVG file of an input directory, resets the Blender scene, imports the   *)
(* file, configures/joins/converts the imported objects, repairs and       *)
(* extrudes the mesh and exports it as glTF.                               *)
(*                                                                         *)
(* Strings the program transforms (file names, --format, --mode) are       *)
(* tuples of one-character strings, so that lower(), Path.suffix,          *)
(* Path.stem and sorted() are computed rather than assumed.                *)
(* The host (bpy) is the record variable bpy; host operators are the       *)
(* Op* definitions, modelled from the meaning of the operator the source   *)
(* calls.  A host operator that the source expects to be able to fail      *)
(* takes the outcome as a parameter chosen by the calling action.          *)
(***************************************************************************)
EXTENDS Integers, Sequences, FiniteSets, TLC

\* ---------- bounds ----------
\* at most this many entries in the input directory
MaxFiles == 2
\* an importer creates at most this many objects per call
MaxObjs == 2

\* ---------- strings ----------
\* str.lower() on one character (the alphabet the model uses)
LowerChar(c) ==
    CASE c = "S" -> "s"
      [] c = "V" -> "v"
      [] c = "G" -> "g"
      [] c = "L" -> "l"
      [] c = "B" -> "b"
      [] c = "P" -> "p"
      [] OTHER -> c

\* str.lower()
Lower(s) == [i \in 1..Len(s) |-> LowerChar(s[i])]

\* the characters of the model in code-point order ('.' < 'A'..'Z' < 'a'..'z')
Alphabet == <<".", "B", "G", "L", "P", "S", "V",
              "a", "b", "c", "e", "f", "g", "j", "l", "o", "p", "r", "s",
              "t", "u", "v", "x">>

Ord(c) == CHOOSE i \in 1..Len(Alphabet) : Alphabet[i] = c

\* s < t for Python strings (lexicographic by code point)
RECURSIVE StrLess(_, _)
StrLess(s, t) ==
    IF t = <<>> THEN FALSE
    ELSE IF s = <<>> THEN TRUE
    ELSE IF Ord(Head(s)) # Ord(Head(t)) THEN Ord(Head(s)) < Ord(Head(t))
    ELSE StrLess(Tail(s), Tail(t))

\* index of the last "." of a name, 0 when there is none (str.rfind)
LastDot(name) ==
    IF \E i \in 1..Len(name) : name[i] = "."
    THEN CHOOSE i \in 1..Len(name) :
            /\ name[i] = "."
            /\ \A j \in (i+1)..Len(name) : name[j] # "."
    ELSE 0

\* pathlib PurePath.suffix: from the last dot, unless that dot leads or ends the name
Suffix(name) ==
    LET i == LastDot(name) IN
    IF 1 < i /\ i < Len(name) THEN SubSeq(name, i, Len(name)) ELSE <<>>

\* pathlib PurePath.stem
Stem(name) ==
    LET i == LastDot(name) IN
    IF 1 < i /\ i < Len(name) THEN SubSeq(name, 1, i - 1) ELSE name

\* the names in descending order
SortedDescending(S) ==
    CHOOSE q \in [1..Cardinality(S) -> S] :
        \A i, j \in 1..Cardinality(S) : i < j => StrLess(q[j], q[i])

\* sorted(): the ascending arrangement of a set of names
Sorted(S) ==
    CHOOSE q \in [1..Cardinality(S) -> S] :
        \A i, j \in 1..Cardinality(S) : i < j => StrLess(q[i], q[j])

DotSvg == <<".", "s", "v", "g">>
Glb == <<"g", "l", "b">>
Gltf == <<"g", "l", "t", "f">>
ModeCurve == <<"c", "u", "r", "v", "e">>
ModeGp == <<"g", "p">>
ModeAuto == <<"a", "u", "t", "o">>

\* names an input directory may hold
DirUniverse ==
    { <<"a", ".", "S", "V", "G">>, <<"a", ".", "s", "v", "g">>,
      <<"b", ".", "s", "v", "g">>, <<"c", ".", "t", "x", "t">> }

\* values of --format and --mode on the command line
FormatArgs == { Glb, <<"G", "L", "B">>, <<"G", "l", "b">>, Gltf, <<"o", "b", "j">> }
ModeArgs == { ModeCurve, ModeGp, <<"G", "P">>, ModeAuto }

\* values of --extrude, in centimetres (the default is 0.01 m)
ExtrudeArgs == { 1 }

\* ---------- host objects ----------
None == 0

\* curve data as the importer may deliver it, and as configure_curve_fill leaves it
RawData == [dimensions |-> "3D", fill_mode |-> "FULL", bevel_depth |-> 1, extrude |-> 1]
FlatData == [dimensions |-> "2D", fill_mode |-> "BOTH", bevel_depth |-> 0, extrude |-> 0]
DataPresets == { RawData, FlatData }

VARIABLES
    dir,          \* names in the input directory
    inDirExists,  \* in_dir.exists()
    hasGP,        \* hasattr(bpy.ops.wm, "gpencil_import_svg")
    bpy,          \* host state: objects (and which cannot be selected), selection,
                  \* active object, mode, orphan data
    pc,           \* position in main()
    fmt, mode,    \* parsed --format and --mode
    extrude,      \* parsed --extrude, in centimetres
    svgs,         \* the sorted list of SVG paths
    idx,          \* position of the for loop in svgs
    imported, joined, mesh,   \* locals of the loop body
    err,          \* the exception that left main(), "" when none
    outcome,      \* per file, the outcome line printed for it ("" when none yet)
    final,        \* the closing line printed: "", "NoSVGs" or "Done"
    artifacts,    \* output directory: path -> what export wrote there
    calls,        \* per file, the functions and host operators invoked, in order
    yield         \* per file, what each importer produced when it ran

vars == <<dir, inDirExists, hasGP, bpy, pc, fmt, mode, extrude, svgs, idx, imported,
          joined, mesh, err, outcome, final, artifacts, calls, yield>>


\* ---------- helpers (source lines 23-33) ----------
\* the ascending list of a set of object ids (bpy.data.objects iterates in name order)
IdList(S) ==
    CHOOSE q \in [1..Cardinality(S) -> S] :
        \A i, j \in 1..Cardinality(S) : i < j => q[i] < q[j]

Range(q) == { q[i] : i \in 1..Len(q) }

Restrict(f, S) == [x \in S |-> f[x]]

\* bpy.ops.object.select_all(action='DESELECT')
DeselectAll(b) == [b EXCEPT !.selected = {}]

\* obj.select_set(True)
SelectSet(b, o) == [b EXCEPT !.selected = @ \cup {o}]

\* bpy.context.view_layer.objects.active = obj
SetActive(b, o) == [b EXCEPT !.active = o]

\* set(o.name for o in bpy.data.objects)
SnapshotNames(b) == DOMAIN b.objects

\* new_objects ignoring the snapshot: every object of the scene
NewObjectsAll(b, before) == IdList(DOMAIN b.objects)

\* [o for o in bpy.data.objects if o.name not in before]
NewObjects(b, before) == IdList({ o \in DOMAIN b.objects : o \notin before })

\* ---------- host operators ----------
\* bpy.ops.object.select_all(action='SELECT'): selects the objects that can be
\* selected; an object with hide_select set, or hidden in the view layer, is not
OpSelectAll(b) == [b EXCEPT !.selected = DOMAIN b.objects \ b.unselectable]

\* bpy.ops.object.delete(): removes the selected objects; their data blocks are orphaned
OpDelete(b) ==
    [b EXCEPT !.objects = Restrict(@, DOMAIN @ \ b.selected),
              !.selected = {},
              !.active = IF @ \in b.selected THEN None ELSE @,
              !.orphans = @ \cup (b.selected \cap DOMAIN b.objects)]

\* bpy.ops.outliner.orphans_purge(do_recursive=True)
OpOrphansPurge(b) == [b EXCEPT !.orphans = {}]

\* bpy.ops.object.join(): the selected objects are merged into the active one
OpJoin(b) ==
    IF b.active = None \/ b.active \notin DOMAIN b.objects THEN b
    ELSE [b EXCEPT !.objects = Restrict(@, DOMAIN @ \ (b.selected \ {b.active})),
                   !.selected = @ \cap {b.active}]

\* an importer creates n objects of one type for the file at position f of svgs,
\* each with a data block set as data; sel says whether it leaves them selected
OpImport(b, type, f, n, data, sel) ==
    LET new == b.nextId .. (b.nextId + n - 1) IN
    [b EXCEPT !.objects = [o \in DOMAIN @ \cup new |->
                              IF o \in new
                              THEN [type |-> type, owner |-> f,
                                    data |-> data, geom |-> <<>>]
                              ELSE @[o]],
              !.selected = IF sel /\ n > 0 THEN new ELSE @,
              !.active = IF sel /\ n > 0 THEN b.nextId ELSE @,
              !.nextId = @ + n]

\* bpy.ops.import_curve.svg(filepath=...)
OpImportCurveSvg(b, f, n, data, sel) == OpImport(b, "CURVE", f, n, data, sel)

\* bpy.ops.wm.gpencil_import_svg(filepath=...)
OpGpencilImportSvg(b, f, n, data, sel) == OpImport(b, "GPENCIL", f, n, data, sel)

\* ---------- reset_scene (source lines 35-42) ----------
\* reset_scene with the delete call left out
ResetSceneNoDelete(b, purgeOk) ==
    LET d == OpSelectAll(b) IN
    IF purgeOk THEN OpOrphansPurge(d) ELSE d

ResetScene(b, purgeOk) ==
    LET d == OpDelete(OpSelectAll(b)) IN
    IF purgeOk THEN OpOrphansPurge(d) ELSE d

\* ---------- join_objects (source lines 44-55) ----------
\* join_objects making the last object, not the first, the active one
JoinObjectsLastActive(b, objs) ==
    LET live == SelectSeq(objs, LAMBDA o : o # None /\ o \in DOMAIN b.objects)
        sel == [DeselectAll(b) EXCEPT !.selected = { live[i] : i \in 1..Len(live) }]
    IN  IF live = <<>> THEN [bpy |-> b, result |-> None, merged |-> FALSE]
        ELSE IF Len(live) = 1 THEN [bpy |-> b, result |-> live[1], merged |-> FALSE]
        ELSE LET j == OpJoin(SetActive(sel, live[Len(live)]))
             IN  [bpy |-> j, result |-> j.active, merged |-> TRUE]

\* objs is a list of object references (None for a null one); the result names
\* the host state after the call, the returned object and whether join() ran
JoinObjects(b, objs) ==
    LET live == SelectSeq(objs, LAMBDA o : o # None /\ o \in DOMAIN b.objects)
        sel == [k \in 0..Len(live) |->
                   [DeselectAll(b) EXCEPT !.selected = { live[i] : i \in 1..k }]]
    IN  IF live = <<>> THEN [bpy |-> b, result |-> None, merged |-> FALSE]
        ELSE IF Len(live) = 1 THEN [bpy |-> b, result |-> live[1], merged |-> FALSE]
        ELSE LET j == OpJoin(SetActive(sel[Len(live)], live[1]))
             IN  [bpy |-> j, result |-> j.active, merged |-> TRUE]

\* ---------- convert_to_mesh (source lines 57-65) ----------
\* how: what bpy.ops.object.convert(target='MESH') does to the active object:
\* "mesh" (converted), "kept" (type unchanged), "lost" (no active object afterwards)
OpConvert(b, how) ==
    IF how = "mesh"
    THEN [b EXCEPT !.objects = [o \in DOMAIN @ |->
                        IF o \in b.selected THEN [@[o] EXCEPT !.type = "MESH"] ELSE @[o]]]
    ELSE IF how = "lost" THEN [b EXCEPT !.active = None]
    ELSE b

\* convert_to_mesh returning its argument without the type check
ConvertToMeshNoCheck(b, obj, how) ==
    LET c == OpConvert(SetActive(SelectSet(DeselectAll(b), obj), obj), how)
    IN  [bpy |-> c, result |-> obj, raised |-> FALSE]

ConvertToMesh(b, obj, how) ==
    LET c == OpConvert(SetActive(SelectSet(DeselectAll(b), obj), obj), how)
        m == c.active
    IN  IF m = None \/ c.objects[m].type # "MESH"
        THEN [bpy |-> c, result |-> None, raised |-> TRUE]
        ELSE [bpy |-> c, result |-> m, raised |-> FALSE]

\* ---------- configure_curve_fill (source lines 94-106) ----------
\* configure_curve_fill with the fill_mode assignment left out
ConfigureCurveFillNoFillMode(b, o) ==
    IF b.objects[o].type # "CURVE" THEN b
    ELSE [b EXCEPT !.objects[o].data =
             [dimensions |-> "2D", fill_mode |-> @.fill_mode, bevel_depth |-> 0,
              extrude |-> 0]]

ConfigureCurveFill(b, o) ==
    IF b.objects[o].type # "CURVE" THEN b
    ELSE [b EXCEPT !.objects[o].data =
             [dimensions |-> "2D", fill_mode |-> "BOTH", bevel_depth |-> 0, extrude |-> 0]]

\* ---------- edit-mode host operators ----------
\* bpy.ops.object.mode_set(mode=...)
OpModeSet(b, m) == [b EXCEPT !.mode = m]

\* a mesh operator (edge_face_add, fill, extrude_region_move) edits the geometry
\* of the object being edited
OpMeshEdit(b, what) ==
    IF b.mode = "EDIT" /\ b.active \in DOMAIN b.objects
    THEN [b EXCEPT !.objects[b.active].geom = Append(@, what)]
    ELSE b

\* ---------- extrude_mesh (source lines 67-79) ----------
\* extrude_mesh without the finally clause: object mode is restored only when
\* both operators succeeded
ExtrudeMeshNoFinally(b, mesh_obj, extrude_m, selOk, extOk) ==
    LET e == OpModeSet(SetActive(SelectSet(DeselectAll(b), mesh_obj), mesh_obj), "EDIT")
    IN  IF selOk /\ extOk
        THEN [bpy |-> OpModeSet(OpMeshEdit(e, <<"extrude", extrude_m>>), "OBJECT"),
              raised |-> FALSE]
        ELSE [bpy |-> e, raised |-> TRUE]

\* selOk, extOk: whether mesh.select_all and mesh.extrude_region_move succeed
ExtrudeMesh(b, mesh_obj, extrude_m, selOk, extOk) ==
    LET e == OpModeSet(SetActive(SelectSet(DeselectAll(b), mesh_obj), mesh_obj), "EDIT")
        x == IF selOk /\ extOk THEN OpMeshEdit(e, <<"extrude", extrude_m>>) ELSE e
    IN  [bpy |-> OpModeSet(x, "OBJECT"), raised |-> ~(selOk /\ extOk)]

\* ---------- export_selected (source lines 81-86) ----------
\* the exporter writes the selected objects to path, replacing what was there
OpExportGltf(arts, b, path, export_format, f) ==
    [p \in DOMAIN arts \cup {path} |->
        IF p = path
        THEN [format |-> export_format, objects |-> b.selected,
              active |-> b.active, source |-> f]
        ELSE arts[p]]

ExportSelected(arts, b, path, fmt_, f) ==
    OpExportGltf(arts, b, path,
                 IF Lower(fmt_) = Glb THEN "GLB" ELSE "GLTF_SEPARATE", f)

\* ---------- import pipelines (source lines 89-92, 108-115) ----------
\* what an importer makes of one file: how many objects, their data, selected or not
NoYield == [n |-> 0, data |-> RawData, sel |-> FALSE]

CurveYields ==
    { [n |-> k, data |-> d, sel |-> s] :
        k \in 0..MaxObjs, d \in DataPresets, s \in BOOLEAN }

GpYields ==
    { [n |-> k, data |-> RawData, sel |-> s] : k \in 0..MaxObjs, s \in BOOLEAN }

\* a call that creates nothing has one outcome
WellFormed(y) == y.n = 0 => y = NoYield

\* hc: what the curve importer makes of the file
ImportSvgAsCurve(b, f, hc) ==
    LET before == SnapshotNames(b)
        a == OpImportCurveSvg(b, f, hc.n, hc.data, hc.sel)
    IN  [bpy |-> a, result |-> NewObjects(a, before),
         ops |-> <<"import_svg_as_curve", "op.import_curve.svg">>]

\* import_svg_as_grease_pencil without the hasattr test: the operator is called anyway
ImportSvgAsGreasePencilNoTest(b, f, has, hc, hg) ==
    LET before == SnapshotNames(b)
        a == OpGpencilImportSvg(b, f, hg.n, hg.data, hg.sel)
    IN  [bpy |-> a, result |-> NewObjects(a, before),
         ops |-> <<"import_svg_as_grease_pencil", "op.gpencil_import_svg">>]

\* import_svg_as_grease_pencil falling back to curves also when the importer is
\* present and brings nothing
ImportSvgAsGreasePencilRetry(b, f, has, hc, hg) ==
    LET before == SnapshotNames(b)
        g == OpGpencilImportSvg(b, f, hg.n, hg.data, hg.sel)
        retry == ~has \/ NewObjects(g, before) = <<>>
        a == IF retry THEN OpImportCurveSvg(IF has THEN g ELSE b, f, hc.n, hc.data, hc.sel)
             ELSE g
    IN  [bpy |-> a, result |-> NewObjects(a, before),
         ops |-> <<"import_svg_as_grease_pencil">>
                 \o (IF has THEN <<"op.gpencil_import_svg">> ELSE <<>>)
                 \o (IF retry THEN <<"op.import_curve.svg">> ELSE <<>>)]

\* has: hasattr(bpy.ops.wm, "gpencil_import_svg"); hg: what that importer makes of the file
ImportSvgAsGreasePencil(b, f, has, hc, hg) ==
    LET before == SnapshotNames(b)
        a == IF has THEN OpGpencilImportSvg(b, f, hg.n, hg.data, hg.sel)
             ELSE OpImportCurveSvg(b, f, hc.n, hc.data, hc.sel)
    IN  [bpy |-> a, result |-> NewObjects(a, before),
         ops |-> <<"import_svg_as_grease_pencil",
                   IF has THEN "op.gpencil_import_svg" ELSE "op.import_curve.svg">>]

\* ---------- fill_mesh_if_needed (source lines 117-137) ----------
\* fill_mesh_if_needed with both repairs in one try block: a failing edge-to-face
\* ends the attempts, the fill is not tried
FillMeshIfNeededOneTry(b, mesh_obj, selOk, edgeOk, fillOk) ==
    LET e == OpModeSet(SetActive(SelectSet(DeselectAll(b), mesh_obj), mesh_obj), "EDIT")
        a == IF edgeOk THEN OpMeshEdit(e, <<"edge_face_add">>) ELSE e
        f == IF edgeOk /\ fillOk THEN OpMeshEdit(a, <<"fill">>) ELSE a
    IN  IF selOk THEN [bpy |-> OpModeSet(f, "OBJECT"), raised |-> FALSE]
        ELSE [bpy |-> OpModeSet(e, "OBJECT"), raised |-> TRUE]

\* selOk, edgeOk, fillOk: whether mesh.select_all, edge_face_add and fill succeed
FillMeshIfNeeded(b, mesh_obj, selOk, edgeOk, fillOk) ==
    LET e == OpModeSet(SetActive(SelectSet(DeselectAll(b), mesh_obj), mesh_obj), "EDIT")
        a == IF edgeOk THEN OpMeshEdit(e, <<"edge_face_add">>) ELSE e
        f == IF fillOk THEN OpMeshEdit(a, <<"fill">>) ELSE a
    IN  IF selOk THEN [bpy |-> OpModeSet(f, "OBJECT"), raised |-> FALSE]
        ELSE [bpy |-> OpModeSet(e, "OBJECT"), raised |-> TRUE]

\* ---------- main (source lines 140-200) ----------
\* yield[f]: how many objects each importer made of file f and how many the import
\* step handed on (the ImportedGeometrySet), NotRun before that happened
NotRun == 0 - 1

\* the fallback taken without looking at the first result
NeedsFallbackAlways(m, result) == m \notin {ModeCurve, ModeGp}

\* lines 168-170: auto mode (any mode but curve and gp) tries the second importer
\* when the first attempt brought nothing
NeedsFallback(m, result) == m \notin {ModeCurve, ModeGp} /\ result = <<>>

\* the scene of the startup file: empty, or the default cube
StartupScenes ==
    { [objects |-> [o \in 1..k |->
                       [type |-> "MESH", owner |-> 0, data |-> RawData, geom |-> <<>>]],
       selected |-> {}, active |-> None, mode |-> "OBJECT", orphans |-> {},
       unselectable |-> {}, nextId |-> 2] : k \in 0..1 }

\* a startup file holding one curve object that select_all cannot select:
\* reset_scene leaves it in the scene
LeftoverScenes ==
    { [objects |-> [o \in {1} |->
                       [type |-> "CURVE", owner |-> 0, data |-> RawData, geom |-> <<>>]],
       selected |-> {}, active |-> None, mode |-> "OBJECT", orphans |-> {},
       unselectable |-> {1}, nextId |-> 2] }

Log(op) == [calls EXCEPT ![idx] = @ \o op]

\* the export path with the format string itself as the extension
ExportPathFormatAsExtension(svg, fmt_) == Stem(svg) \o <<".">> \o fmt_

\* out_dir / f"{svg.stem}.{ 'glb' if fmt == 'glb' else 'gltf' }" (line 196)
ExportPath(svg, fmt_) == Stem(svg) \o <<".">> \o (IF fmt_ = Glb THEN Glb ELSE Gltf)

\* the loop of lines 178-180 over the first k objects of objs
RECURSIVE ConfigureAll(_, _, _)
ConfigureAll(b, objs, k) ==
    IF k = 0 THEN b
    ELSE LET p == ConfigureAll(b, objs, k - 1) IN
         IF p.objects[objs[k]].type = "CURVE" THEN ConfigureCurveFill(p, objs[k]) ELSE p

Init ==
    /\ dir \in { d \in SUBSET DirUniverse : Cardinality(d) <= MaxFiles }
    /\ inDirExists \in BOOLEAN
    /\ (~inDirExists => dir = {})
    /\ hasGP \in BOOLEAN
    /\ bpy \in StartupScenes
    /\ pc = "main"
    /\ fmt = <<>> /\ mode = <<>> /\ extrude = 0
    /\ svgs = <<>> /\ idx = 0
    /\ imported = <<>> /\ joined = None /\ mesh = None
    /\ err = "" /\ outcome = <<>> /\ final = ""
    /\ artifacts = <<>>
    /\ calls = <<>> /\ yield = <<>>

\* main without the test of lines 153-155: an empty list goes into the loop
MainNoEmptyTest ==
    /\ pc = "main"
    /\ \E af \in FormatArgs, am \in ModeArgs, ex \in ExtrudeArgs :
          /\ fmt' = Lower(af)
          /\ mode' = Lower(am)
          /\ extrude' = ex
    /\ IF ~inDirExists
       THEN /\ pc' = "raised"
            /\ err' = "main: FileNotFoundError"
            /\ UNCHANGED <<svgs, outcome, calls, yield, final>>
       ELSE LET l == Sorted({ p \in dir : Lower(Suffix(p)) = DotSvg }) IN
            /\ svgs' = l
            /\ outcome' = [i \in 1..Len(l) |-> ""]
            /\ calls' = [i \in 1..Len(l) |-> <<>>]
            /\ yield' = [i \in 1..Len(l) |-> [curve |-> NotRun, gp |-> NotRun, set |-> NotRun]]
            /\ final' = final /\ pc' = "for"
            /\ err' = err
    /\ UNCHANGED <<dir, inDirExists, hasGP, bpy, idx, imported, joined, mesh, artifacts>>

\* lines 141-157: parse the arguments, check the input directory, list the SVGs
Main ==
    /\ pc = "main"
    /\ \E af \in FormatArgs, am \in ModeArgs, ex \in ExtrudeArgs :
          /\ fmt' = Lower(af)
          /\ mode' = Lower(am)
          /\ extrude' = ex
    /\ IF ~inDirExists
       THEN /\ pc' = "raised"
            /\ err' = "main: FileNotFoundError"
            /\ UNCHANGED <<svgs, outcome, calls, yield, final>>
       ELSE LET l == Sorted({ p \in dir : Lower(Suffix(p)) = DotSvg }) IN
            /\ svgs' = l
            /\ outcome' = [i \in 1..Len(l) |-> ""]
            /\ calls' = [i \in 1..Len(l) |-> <<>>]
            /\ yield' = [i \in 1..Len(l) |-> [curve |-> NotRun, gp |-> NotRun, set |-> NotRun]]
            /\ IF l = <<>>
               THEN final' = "NoSVGs" /\ pc' = "done"
               ELSE final' = final /\ pc' = "for"
            /\ err' = err
    /\ UNCHANGED <<dir, inDirExists, hasGP, bpy, idx, imported, joined, mesh, artifacts>>

\* line 159: the for loop takes the next path, or the run prints Done
ForNext ==
    /\ pc = "for"
    /\ IF idx < Len(svgs)
       THEN idx' = idx + 1 /\ pc' = "reset" /\ final' = final
       ELSE idx' = idx /\ pc' = "done" /\ final' = "Done"
    /\ UNCHANGED <<dir, inDirExists, hasGP, bpy, fmt, mode, extrude, svgs, imported,
                   joined, mesh, err, outcome, artifacts, calls, yield>>

\* line 161
Reset ==
    /\ pc = "reset"
    /\ \E purgeOk \in BOOLEAN : bpy' = ResetScene(bpy, purgeOk)
    /\ calls' = Log(<<"reset_scene">>)
    /\ pc' = "import"
    /\ UNCHANGED <<dir, inDirExists, hasGP, fmt, mode, extrude, svgs, idx, imported,
                   joined, mesh, err, outcome, final, artifacts, yield>>

\* lines 163-169: the first import attempt of the file
Import ==
    /\ pc = "import"
    /\ \E hc \in CurveYields, hg \in GpYields :
          LET useGp == mode = ModeGp /\ hasGP
              r == IF mode = ModeGp
                   THEN ImportSvgAsGreasePencil(bpy, idx, hasGP, hc, hg)
                   ELSE ImportSvgAsCurve(bpy, idx, hc)
          IN  /\ WellFormed(hc) /\ WellFormed(hg)
              /\ IF useGp THEN hc = NoYield ELSE hg = NoYield
              /\ bpy' = r.bpy
              /\ imported' = r.result
              /\ calls' = Log(r.ops)
              /\ yield' = [yield EXCEPT ![idx] =
                              IF useGp THEN [@ EXCEPT !.gp = hg.n, !.set = Len(r.result)]
                              ELSE [@ EXCEPT !.curve = hc.n, !.set = Len(r.result)]]
              /\ pc' = IF NeedsFallback(mode, r.result) THEN "import2" ELSE "check"
    /\ UNCHANGED <<dir, inDirExists, hasGP, fmt, mode, extrude, svgs, idx, joined, mesh,
                   err, outcome, final, artifacts>>

\* lines 170-171: the second attempt of auto mode; a file parses the same way each time
ImportFallback ==
    /\ pc = "import2"
    /\ \E hc \in CurveYields, hg \in GpYields :
          LET r == ImportSvgAsGreasePencil(bpy, idx, hasGP, hc, hg)
          IN  /\ WellFormed(hc) /\ WellFormed(hg)
              /\ IF hasGP THEN hc = NoYield ELSE hg = NoYield /\ hc.n = yield[idx].curve
              /\ bpy' = r.bpy
              /\ imported' = r.result
              /\ calls' = Log(r.ops)
              /\ yield' = [yield EXCEPT ![idx] =
                              IF hasGP THEN [@ EXCEPT !.gp = hg.n, !.set = Len(r.result)]
                              ELSE [@ EXCEPT !.set = Len(r.result)]]
    /\ pc' = "check"
    /\ UNCHANGED <<dir, inDirExists, hasGP, fmt, mode, extrude, svgs, idx, joined, mesh,
                   err, outcome, final, artifacts>>

\* lines 173-175 with the continue left out
CheckImportedNoContinue ==
    /\ pc = "check"
    /\ IF imported = <<>>
       THEN outcome' = [outcome EXCEPT ![idx] = "Skipped: no objects imported"]
       ELSE outcome' = outcome
    /\ pc' = "configure"
    /\ UNCHANGED <<dir, inDirExists, hasGP, bpy, fmt, mode, extrude, svgs, idx, imported,
                   joined, mesh, err, final, artifacts, calls, yield>>

\* lines 173-175 raising on an empty import instead of skipping the file
CheckImportedRaises ==
    /\ pc = "check"
    /\ IF imported = <<>>
       THEN pc' = "raised" /\ err' = "main: no objects imported"
       ELSE pc' = "configure" /\ err' = err
    /\ UNCHANGED <<dir, inDirExists, hasGP, bpy, fmt, mode, extrude, svgs, idx, imported,
                   joined, mesh, outcome, final, artifacts, calls, yield>>

\* lines 173-175
CheckImported ==
    /\ pc = "check"
    /\ IF imported = <<>>
       THEN /\ outcome' = [outcome EXCEPT ![idx] = "Skipped: no objects imported"]
            /\ pc' = "for"
       ELSE /\ outcome' = outcome
            /\ pc' = "configure"
    /\ UNCHANGED <<dir, inDirExists, hasGP, bpy, fmt, mode, extrude, svgs, idx, imported,
                   joined, mesh, err, final, artifacts, calls, yield>>

\* lines 178-180
Configure ==
    /\ pc = "configure"
    /\ bpy' = ConfigureAll(bpy, imported, Len(imported))
    /\ calls' = Log([k \in 1..Cardinality({ i \in 1..Len(imported) :
                                            bpy.objects[imported[i]].type = "CURVE" })
                        |-> "configure_curve_fill"])
    /\ pc' = "join"
    /\ UNCHANGED <<dir, inDirExists, hasGP, fmt, mode, extrude, svgs, idx, imported,
                   joined, mesh, err, outcome, final, artifacts, yield>>

\* lines 182-185
Join ==
    /\ pc = "join"
    /\ LET r == JoinObjects(bpy, imported) IN
          /\ bpy' = r.bpy
          /\ joined' = r.result
          /\ calls' = Log(IF r.merged THEN <<"join_objects", "op.join">>
                          ELSE <<"join_objects">>)
          /\ IF r.result = None
             THEN /\ outcome' = [outcome EXCEPT ![idx] = "Skipped: join failed"]
                  /\ pc' = "for"
             ELSE /\ outcome' = outcome
                  /\ pc' = "convert"
    /\ UNCHANGED <<dir, inDirExists, hasGP, fmt, mode, extrude, svgs, idx, imported,
                   mesh, err, final, artifacts, yield>>

\* line 187 followed at once by the extrusion, the repair of line 188 left out
ConvertThenExtrude ==
    /\ pc = "convert"
    /\ \E how \in {"mesh", "kept", "lost"} :
          LET r == ConvertToMesh(bpy, joined, how) IN
          /\ bpy' = r.bpy
          /\ IF r.raised
             THEN pc' = "raised" /\ err' = "convert_to_mesh: RuntimeError" /\ mesh' = mesh
             ELSE pc' = "extrude" /\ err' = err /\ mesh' = r.result
    /\ calls' = Log(<<"convert_to_mesh">>)
    /\ UNCHANGED <<dir, inDirExists, hasGP, fmt, mode, extrude, svgs, idx, imported,
                   joined, outcome, final, artifacts, yield>>

\* line 187
Convert ==
    /\ pc = "convert"
    /\ \E how \in {"mesh", "kept", "lost"} :
          LET r == ConvertToMesh(bpy, joined, how) IN
          /\ bpy' = r.bpy
          /\ IF r.raised
             THEN pc' = "raised" /\ err' = "convert_to_mesh: RuntimeError" /\ mesh' = mesh
             ELSE pc' = "repair" /\ err' = err /\ mesh' = r.result
    /\ calls' = Log(<<"convert_to_mesh">>)
    /\ UNCHANGED <<dir, inDirExists, hasGP, fmt, mode, extrude, svgs, idx, imported,
                   joined, outcome, final, artifacts, yield>>

\* line 188
Repair ==
    /\ pc = "repair"
    /\ \E selOk, edgeOk, fillOk \in BOOLEAN :
          LET r == FillMeshIfNeeded(bpy, mesh, selOk, edgeOk, fillOk) IN
          /\ bpy' = r.bpy
          /\ IF r.raised
             THEN pc' = "raised" /\ err' = "fill_mesh_if_needed: operator error"
             ELSE pc' = "extrude" /\ err' = err
    /\ calls' = Log(<<"fill_mesh_if_needed">>)
    /\ UNCHANGED <<dir, inDirExists, hasGP, fmt, mode, extrude, svgs, idx, imported,
                   joined, mesh, outcome, final, artifacts, yield>>

\* line 189
Extrude ==
    /\ pc = "extrude"
    /\ \E selOk, extOk \in BOOLEAN :
          LET r == ExtrudeMesh(bpy, mesh, extrude, selOk, extOk) IN
          /\ bpy' = r.bpy
          /\ IF r.raised
             THEN pc' = "raised" /\ err' = "extrude_mesh: operator error"
             ELSE pc' = "select" /\ err' = err
    /\ calls' = Log(<<"extrude_mesh">>)
    /\ UNCHANGED <<dir, inDirExists, hasGP, fmt, mode, extrude, svgs, idx, imported,
                   joined, mesh, outcome, final, artifacts, yield>>

\* lines 192-194
SelectMesh ==
    /\ pc = "select"
    /\ bpy' = SetActive(SelectSet(DeselectAll(bpy), mesh), mesh)
    /\ pc' = "export"
    /\ UNCHANGED <<dir, inDirExists, hasGP, fmt, mode, extrude, svgs, idx, imported,
                   joined, mesh, err, outcome, final, artifacts, calls, yield>>

\* lines 196-198
Export ==
    /\ pc = "export"
    /\ \E ok \in BOOLEAN :
          IF ok
          THEN /\ artifacts' = ExportSelected(artifacts, bpy,
                                              ExportPath(svgs[idx], fmt), fmt, idx)
               /\ outcome' = [outcome EXCEPT ![idx] = "Exported"]
               /\ pc' = "for" /\ err' = err
          ELSE /\ pc' = "raised" /\ err' = "export_selected: operator error"
               /\ UNCHANGED <<artifacts, outcome>>
    /\ calls' = Log(<<"export_selected">>)
    /\ UNCHANGED <<dir, inDirExists, hasGP, bpy, fmt, mode, extrude, svgs, idx, imported,
                   joined, mesh, final, yield>>

Next ==
    \/ Main
    \/ ForNext
    \/ Reset
    \/ Import
    \/ ImportFallback
    \/ CheckImported
    \/ Configure
    \/ Join
    \/ Convert
    \/ Repair
    \/ Extrude
    \/ SelectMesh
    \/ Export

Spec == Init /\ [][Next]_vars

\* the same program started on a scene that reset_scene cannot empty
InitLeftover ==
    /\ dir \in { d \in SUBSET DirUniverse : Cardinality(d) <= MaxFiles }
    /\ inDirExists \in BOOLEAN
    /\ (~inDirExists => dir = {})
    /\ hasGP \in BOOLEAN
    /\ bpy \in LeftoverScenes
    /\ pc = "main"
    /\ fmt = <<>> /\ mode = <<>> /\ extrude = 0
    /\ svgs = <<>> /\ idx = 0
    /\ imported = <<>> /\ joined = None /\ mesh = None
    /\ err = "" /\ outcome = <<>> /\ final = ""
    /\ artifacts = <<>>
    /\ calls = <<>> /\ yield = <<>>

SpecLeftover == InitLeftover /\ [][Next]_vars

\* ---------- properties ----------
Files == 1..Len(svgs)

Ops(i) == Range(calls[i])

Count(i, op) == Cardinality({ k \in 1..Len(calls[i]) : calls[i][k] = op })

Owned(i) == { o \in DOMAIN bpy.objects : bpy.objects[o].owner = i }

\* the run has ended: main() returned or an exception left it
Halted == pc \in {"done", "raised"}

\* the import step of file i is over
ImportDone(i) == i < idx \/ (i = idx /\ pc \notin {"reset", "import", "import2"})

SkippedNoImport == "Skipped: no objects imported"

\* C1: when convert_to_mesh raises for a file, the error stays inside the batch
\* driver: the file is reported Failed and the driver goes on with the next file.
C1_ConversionFailureIsolated ==
    \A i \in Files :
        (i = idx /\ err = "convert_to_mesh: RuntimeError")
            => (pc # "raised" /\ outcome[i] = "Failed")

\* C2: with an existing input directory, whatever the host operators do per file,
\* the run ends at the final completion point, every discovered file having had its
\* reset-and-import cycle attempted and a terminal outcome reported.
C2_RunCompletes ==
    (inDirExists /\ Halted)
        => /\ pc = "done"
           /\ \A i \in Files :
                 /\ outcome[i] # ""
                 /\ "reset_scene" \in Ops(i)
                 /\ yield[i].set # NotRun

PipelineOps ==
    {"configure_curve_fill", "join_objects", "op.join", "convert_to_mesh",
     "fill_mesh_if_needed", "extrude_mesh", "export_selected"}

\* C4: a file whose import step yields an empty ImportedGeometrySet is skipped:
\* no fill-configure, join, convert, repair, extrude or export is invoked for it,
\* no artifact is written for it, it raises no error, and its cycle leaves the
\* host as a reset leaves it (empty scene, nothing selected, object mode), so the
\* files after it start as they would without it.
C4_EmptyImportSkipped ==
    \A i \in Files :
        (ImportDone(i) /\ yield[i].set = 0)
            => /\ Ops(i) \cap PipelineOps = {}
               /\ \A p \in DOMAIN artifacts : artifacts[p].source # i
               /\ ~(pc = "raised" /\ idx = i)
               /\ Owned(i) = {}
               /\ (i = idx /\ pc = "check") \/ outcome[i] = SkippedNoImport
               /\ (i = idx /\ pc \in {"check", "for"})
                     => /\ DOMAIN bpy.objects = {}
                        /\ bpy.selected = {}
                        /\ bpy.active = None
                        /\ bpy.mode = "OBJECT"

\* the first file was skipped for an empty import and the second one exported
C4_Witness ==
    /\ Len(svgs) = 2
    /\ yield[1].set = 0 /\ outcome[1] = SkippedNoImport
    /\ outcome[2] = "Exported"
    /\ pc = "done"

ValidCurveYields == { y \in CurveYields : WellFormed(y) }
ValidGpYields == { y \in GpYields : WellFormed(y) }

\* C5: in gp mode on a host without the stroke-path importer, the import step
\* calls the curve importer exactly once and never the stroke-path importer, and
\* it returns what import_svg_as_curve returns for the same file and scene.
C5_GpAbsentIsCurveImport ==
    (mode = ModeGp /\ ~hasGP)
        => /\ pc = "import"
                => \A hc \in ValidCurveYields, hg \in ValidGpYields :
                      LET g == ImportSvgAsGreasePencil(bpy, idx, hasGP, hc, hg)
                          c == ImportSvgAsCurve(bpy, idx, hc)
                      IN  g.result = c.result /\ g.bpy = c.bpy
           /\ \A i \in Files :
                 ImportDone(i)
                     => /\ Count(i, "op.import_curve.svg") = 1
                        /\ Count(i, "op.gpencil_import_svg") = 0
                        /\ yield[i].set = yield[i].curve

\* gp mode without the importer has imported two curves
C5_Witness ==
    /\ mode = ModeGp /\ ~hasGP
    /\ pc = "check"
    /\ Len(imported) = 2
    /\ \A o \in Range(imported) : bpy.objects[o].type = "CURVE"

ImportCalls(i) ==
    SelectSeq(calls[i],
              LAMBDA op : op \in {"import_svg_as_curve", "import_svg_as_grease_pencil"})

\* C6: in auto mode the curve import is attempted first; the stroke-path import is
\* attempted for a file exactly when its curve import brought nothing; a non-empty
\* curve import is the ImportedGeometrySet and no second import runs.
C6_AutoCurveFirst ==
    mode = ModeAuto
        => \A i \in Files :
              /\ (i < idx \/ (i = idx /\ pc \notin {"reset", "import"}))
                    => /\ ImportCalls(i)[1] = "import_svg_as_curve"
                       /\ yield[i].curve # NotRun
              /\ (i = idx /\ pc = "import2") => yield[i].curve = 0
              /\ ImportDone(i)
                    => /\ "import_svg_as_grease_pencil" \in Ops(i) <=> yield[i].curve = 0
                       /\ yield[i].curve > 0
                             => /\ ImportCalls(i) = <<"import_svg_as_curve">>
                                /\ yield[i].set = yield[i].curve
                                /\ yield[i].gp = NotRun
              /\ (i = idx /\ pc = "check" /\ yield[i].curve > 0)
                    => /\ Len(imported) = yield[i].curve
                       /\ \A o \in Range(imported) : bpy.objects[o].type = "CURVE"

\* auto mode: the first file imported as curves at once, the second one only
\* through the stroke-path importer
C6_Witness ==
    /\ mode = ModeAuto
    /\ pc = "check" /\ idx = 2
    /\ yield[1].curve > 0 /\ yield[1].gp = NotRun
    /\ yield[2].curve = 0 /\ yield[2].gp > 0

\* C7 as stated: in gp mode a stroke-path importer that is present and returns
\* nothing is treated like an absent one: the curve importer is invoked for the
\* file before it can be skipped.
C7_EmptyGpFallsBackToCurve ==
    mode = ModeGp
        => \A i \in Files :
              outcome[i] = SkippedNoImport => "op.import_curve.svg" \in Ops(i)

\* C7 as amended: in gp mode the curve importer runs, once, only when the
\* stroke-path importer is absent; a present stroke-path importer is called once,
\* its result is the ImportedGeometrySet even when empty, and the file is then
\* skipped without any curve import.
C7_OnlyAbsentGpFallsBack ==
    mode = ModeGp
        => \A i \in Files :
              ImportDone(i)
                  => IF hasGP
                     THEN /\ Count(i, "op.gpencil_import_svg") = 1
                          /\ Count(i, "op.import_curve.svg") = 0
                          /\ yield[i].set = yield[i].gp
                          /\ (yield[i].gp = 0 /\ ~(i = idx /\ pc = "check"))
                                => outcome[i] = SkippedNoImport
                     ELSE /\ Count(i, "op.gpencil_import_svg") = 0
                          /\ Count(i, "op.import_curve.svg") = 1
                          /\ yield[i].set = yield[i].curve

\* gp mode with the importer present: it brought nothing and the file was skipped
\* with no curve import
C7_Witness ==
    /\ mode = ModeGp /\ hasGP
    /\ \E i \in Files :
          /\ outcome[i] = SkippedNoImport
          /\ yield[i].gp = 0
          /\ "op.gpencil_import_svg" \in Ops(i)
          /\ "op.import_curve.svg" \notin Ops(i)

\* the references join_objects keeps
Live(b, lst) == SelectSeq(lst, LAMBDA o : o # None /\ o \in DOMAIN b.objects)

\* lists of references to the objects of the scene, to the object 1 that the first
\* reset removed (or that never was) and of null references; and the imported list
\* with such a reference before, inside or after it
JoinInputs ==
    UNION { [1..n -> {None, 1} \cup DOMAIN bpy.objects] : n \in 0..MaxObjs }
    \cup { SubSeq(imported, 1, k) \o <<x>> \o SubSeq(imported, k + 1, Len(imported)) :
              k \in 0..Len(imported), x \in {None, 1} }

\* C8: join_objects drops the references that are null or no longer in the scene;
\* with none left it returns null, with one left it returns that object without
\* calling the merge and leaves the host as it was; with more it calls the merge
\* once with the first as active object, returns the first, and no other input
\* object is a separate scene entry afterwards.
C8_JoinReducer ==
    /\ pc = "join"
          => \A lst \in JoinInputs :
                LET r == JoinObjects(bpy, lst)
                    live == Live(bpy, lst)
                IN  /\ Len(live) = 0
                          => r.result = None /\ ~r.merged /\ r.bpy = bpy
                    /\ Len(live) = 1
                          => r.result = live[1] /\ ~r.merged /\ r.bpy = bpy
                    /\ Len(live) > 1
                          => /\ r.merged
                             /\ r.result = live[1]
                             /\ r.bpy.active = live[1]
                             /\ live[1] \in DOMAIN r.bpy.objects
                             /\ \A k \in 2..Len(live) :
                                   live[k] # live[1] => live[k] \notin DOMAIN r.bpy.objects
                             /\ \A o \in DOMAIN bpy.objects \ Range(live) :
                                   o \in DOMAIN r.bpy.objects
    /\ pc = "convert"
          => /\ joined = imported[1]
             /\ "op.join" \in Ops(idx) <=> Len(imported) > 1
             /\ Count(idx, "op.join") <= 1
             /\ DOMAIN bpy.objects = {joined}

\* two imported objects have been merged into the first one
C8_Witness ==
    /\ pc = "convert"
    /\ Len(imported) = 2
    /\ Count(idx, "op.join") = 1
    /\ joined = imported[1]
    /\ DOMAIN bpy.objects = {imported[1]}

\* C9: when join_objects is invoked every curve-typed imported object is 2D, filled
\* on BOTH sides, with bevel depth 0 and extrude 0, and stays so when the
\* conversion fails; the configurator changes nothing of an object that is not
\* curve-typed.
C9_FillBeforeJoin ==
    /\ pc = "configure"
          => \A o \in DOMAIN bpy.objects :
                bpy.objects[o].type # "CURVE"
                    => /\ ConfigureCurveFill(bpy, o) = bpy
                       /\ ConfigureAll(bpy, imported, Len(imported)).objects[o]
                             = bpy.objects[o]
    /\ pc = "join" => Range(imported) \subseteq DOMAIN bpy.objects
    /\ (pc \in {"join", "convert"} \/ (pc = "raised" /\ err = "convert_to_mesh: RuntimeError"))
          => \A o \in Range(imported) \cap DOMAIN bpy.objects :
                bpy.objects[o].type = "CURVE"
                    => /\ bpy.objects[o].data.dimensions = "2D"
                       /\ bpy.objects[o].data.fill_mode = "BOTH"
                       /\ bpy.objects[o].data.bevel_depth = 0
                       /\ bpy.objects[o].data.extrude = 0

\* two curves were configured and joined, and the conversion then failed
C9_Witness ==
    /\ pc = "raised" /\ err = "convert_to_mesh: RuntimeError"
    /\ Count(idx, "configure_curve_fill") = 2
    /\ joined \in DOMAIN bpy.objects
    /\ bpy.objects[joined].type = "CURVE"
    /\ bpy.objects[joined].data.fill_mode = "BOTH"

\* C10: at every call of the export operator the selection is exactly the
\* WorkingMesh and it is the active object; the WorkingMesh is the mesh-typed
\* object that join and convert made of the current file's import; what an export
\* wrote is that one object.
C10_ExportsWorkingMesh ==
    /\ pc = "export"
          => /\ bpy.selected = {mesh}
             /\ bpy.active = mesh
             /\ mesh = joined /\ joined = imported[1]
             /\ mesh \in DOMAIN bpy.objects
             /\ bpy.objects[mesh].type = "MESH"
             /\ bpy.objects[mesh].owner = idx
             /\ \A o \in DOMAIN bpy.objects : bpy.objects[o].owner = idx
    /\ \A p \in DOMAIN artifacts :
          /\ Cardinality(artifacts[p].objects) = 1
          /\ artifacts[p].objects = {artifacts[p].active}

\* the second file's mesh, joined from two objects, is about to be exported after
\* the first file was exported
C10_Witness ==
    /\ pc = "export" /\ idx = 2
    /\ outcome[1] = "Exported"
    /\ Len(imported) = 2
    /\ bpy.selected = {mesh}

\* ---------- C11 ----------
\* the outcomes of the host operators inside fill_mesh_if_needed and extrude_mesh
RepairRuns ==
    { FillMeshIfNeeded(bpy, mesh, s, e, f) : s \in BOOLEAN, e \in BOOLEAN, f \in BOOLEAN }

ExtrudeRuns == { ExtrudeMesh(bpy, mesh, extrude, s, x) : s \in BOOLEAN, x \in BOOLEAN }

\* C11: whenever fill_mesh_if_needed or extrude_mesh returns or raises, whichever
\* of select-all, edge-to-face, fill or extrude failed, the host is back in object
\* mode; so the host is in object mode at every call of reset, import, join,
\* convert and export, and in the state an error leaves behind.
C11_EditStateRestored ==
    /\ bpy.mode = "OBJECT"
    /\ pc = "repair" => \A r \in RepairRuns : r.bpy.mode = "OBJECT"
    /\ pc = "extrude" => \A r \in ExtrudeRuns : r.bpy.mode = "OBJECT"

\* extrude_mesh raised after fill_mesh_if_needed edited the mesh in edit mode
C11_Witness ==
    /\ pc = "raised"
    /\ err = "extrude_mesh: operator error"
    /\ bpy.objects[mesh].geom = << <<"edge_face_add">>, <<"fill">> >>
    /\ bpy.mode = "OBJECT"

\* ---------- C12 ----------
\* the geometry edits of the object o in host b
Geom(b, o) == b.objects[o].geom

\* C12: a failing orphan purge in reset_scene, a failing edge-to-face attempt and
\* a failing fill attempt raise nothing: the function returns as it does when the
\* step succeeds, with the same host but for the orphan data or the edit the
\* step would have made, so the file goes on to the same next stage; the fill
\* attempt is made, and takes effect, whether or not edge-to-face failed.
C12_BestEffortNeverPropagates ==
    /\ pc = "reset" =>
          ResetScene(bpy, FALSE) =
             [ResetScene(bpy, TRUE) EXCEPT !.orphans = ResetScene(bpy, FALSE).orphans]
    /\ pc = "import" => err = ""
    /\ pc = "repair" =>
          \A e \in BOOLEAN, f \in BOOLEAN :
             LET r == FillMeshIfNeeded(bpy, mesh, TRUE, e, f)
                 ok == FillMeshIfNeeded(bpy, mesh, TRUE, TRUE, TRUE)
             IN  /\ ~r.raised /\ ~ok.raised
                 /\ r.bpy = [ok.bpy EXCEPT !.objects[mesh].geom = Geom(r.bpy, mesh)]
                 /\ Geom(r.bpy, mesh) =
                       Geom(bpy, mesh)
                       \o (IF e THEN << <<"edge_face_add">> >> ELSE <<>>)
                       \o (IF f THEN << <<"fill">> >> ELSE <<>>)
    /\ pc \in {"extrude", "select", "export"} =>
          /\ err = ""
          /\ \E e \in BOOLEAN, f \in BOOLEAN, x \in {<<>>, << <<"extrude", extrude>> >>} :
                Geom(bpy, mesh) = (IF e THEN << <<"edge_face_add">> >> ELSE <<>>)
                                  \o (IF f THEN << <<"fill">> >> ELSE <<>>) \o x

\* a file was exported although the purge of its reset failed and edge-to-face
\* failed; the fill made after the failed edge-to-face is in the mesh
C12_Witness ==
    /\ pc = "for" /\ idx = 1
    /\ outcome[1] = "Exported"
    /\ bpy.orphans # {}
    /\ Geom(bpy, mesh) = << <<"fill">>, <<"extrude", extrude>> >>

\* ---------- C13 ----------
\* the string is glb up to the case of its letters
IsGlbAnyCase(s) ==
    /\ Len(s) = 3
    /\ s[1] \in {"g", "G"} /\ s[2] \in {"l", "L"} /\ s[3] \in {"b", "B"}

DotGlb == <<".">> \o Glb

DotGltf == <<".">> \o Gltf

\* the variant and the extension agree in the artifact a written at path p
Agrees(p, a) ==
    /\ a.format \in {"GLB", "GLTF_SEPARATE"}
    /\ a.format = "GLB" <=> Suffix(p) = DotGlb
    /\ a.format = "GLTF_SEPARATE" <=> Suffix(p) = DotGltf

\* C13: for every format string of the command line, the export uses the binary
\* variant exactly when the string is glb up to case and the separate-file
\* variant for every other string, unrecognized ones included; the extension
\* of the artifact is .glb exactly when the variant is binary and .gltf exactly
\* when it is separate-file.
C13_FormatSelection ==
    /\ \A p \in DOMAIN artifacts :
          /\ Agrees(p, artifacts[p])
          /\ artifacts[p].format = "GLB" <=> fmt = Glb
    /\ pc = "export" =>
          /\ \E af \in FormatArgs : fmt = Lower(af)
          /\ \A af \in FormatArgs :
                LET f == Lower(af)
                    p == ExportPath(svgs[idx], f)
                    a == ExportSelected(artifacts, bpy, p, f, idx)[p]
                IN  /\ a.format = "GLB" <=> IsGlbAnyCase(af)
                    /\ a.format = "GLTF_SEPARATE" <=> ~IsGlbAnyCase(af)
                    /\ Agrees(p, a)

\* a file exported under a format string that is neither glb nor gltf
C13_Witness ==
    /\ fmt = <<"o", "b", "j">>
    /\ \E p \in DOMAIN artifacts :
          artifacts[p].format = "GLTF_SEPARATE" /\ Suffix(p) = DotGltf

\* ---------- C14 ----------
\* the files of the run that reached Exported
ExportedFiles == { i \in Files : outcome[i] = "Exported" }

\* C14: every file that reached Exported has an artifact of its own: two
\* discovered inputs never export to the same output path, so the output
\* directory holds as many artifacts as there are files that reached Exported.
C14_OneArtifactPerExportedFile ==
    /\ \A i, j \in ExportedFiles :
          i # j => ExportPath(svgs[i], fmt) # ExportPath(svgs[j], fmt)
    /\ Cardinality(DOMAIN artifacts) = Cardinality(ExportedFiles)

\* ---------- C15 ----------
\* the input directory exists and holds no name ending in .svg, in any case
NoSvgInDir == inDirExists /\ dir \subseteq { <<"c", ".", "t", "x", "t">> }

\* C15: when the input directory exists and holds no .svg file, the run ends
\* successfully without raising, having called no scene reset, no import, no
\* other host operator and no export (the scene is the startup scene, nothing
\* is written), and having reported that no SVGs were found.
C15_NoSvgsEndsCleanly ==
    (NoSvgInDir /\ pc # "main") =>
        /\ pc = "done" /\ final = "NoSVGs" /\ err = ""
        /\ svgs = <<>> /\ idx = 0
        /\ calls = <<>> /\ outcome = <<>>
        /\ bpy \in StartupScenes
        /\ artifacts = <<>>

\* the run over a directory holding only c.txt has ended
C15_Witness ==
    /\ dir = { <<"c", ".", "t", "x", "t">> }
    /\ pc = "done" /\ final = "NoSVGs"
    /\ bpy.objects # <<>>

\* ---------- C16 ----------
\* a batch of two files in auto mode has ended; the curve importer brought
\* nothing for file i, and file j is a valid one: the curve importer brought
\* objects for it and no host operator failed on it
ScenarioC(i, j) ==
    /\ Halted /\ mode = ModeAuto /\ Len(svgs) = 2
    /\ i # j
    /\ yield[i].curve = 0
    /\ yield[j].curve > 0 /\ ~(pc = "raised" /\ idx = j)

\* one artifact, the one of file j; one skip, the one of file i; a successful end
OneArtifactOneSkip(i, j) ==
    /\ pc = "done" /\ final = "Done" /\ err = ""
    /\ Cardinality(DOMAIN artifacts) = 1
    /\ \A p \in DOMAIN artifacts : artifacts[p].source = j
    /\ outcome[j] = "Exported"
    /\ outcome[i] = SkippedNoImport

\* C16 as stated: in auto mode, for a batch of one file on which the curve
\* importer yields nothing and one valid file, whatever the stroke-path importer
\* does (absent, present and empty, present and non-empty), the run produces
\* exactly one artifact, the valid file's, reports exactly one skip, and
\* completes successfully.
C16_ScenarioCWhateverGpDoes ==
    \A i, j \in Files : ScenarioC(i, j) => OneArtifactOneSkip(i, j)

\* C16 (amended): the run produces exactly one artifact, reports exactly one
\* skip and completes when the stroke-path importer is absent or brings nothing
\* for the file; when it brings objects the file is not skipped: it goes through
\* the pipeline and is exported, or an operator raises on it and ends the run.
C16_ScenarioCByGpYield ==
    \A i, j \in Files :
        ScenarioC(i, j) =>
            IF yield[i].gp > 0
            THEN /\ hasGP
                 /\ outcome[i] # SkippedNoImport
                 /\ Count(i, "convert_to_mesh") = 1
                 /\ outcome[i] = "Exported" \/ (pc = "raised" /\ idx = i)
            ELSE /\ yield[i].gp = NotRun <=> ~hasGP
                 /\ OneArtifactOneSkip(i, j)

\* scenario C on a host whose stroke-path importer is present and brought
\* nothing for the first file: one skip, one artifact
C16_Witness ==
    /\ ScenarioC(1, 2)
    /\ hasGP /\ yield[1].gp = 0
    /\ OneArtifactOneSkip(1, 2)

\* ---------- C17 ----------
\* the calls main makes itself; the host operators inside them are no stage
StageCalls ==
    <<"reset_scene", "import_svg_as_curve", "import_svg_as_grease_pencil",
      "configure_curve_fill", "join_objects", "convert_to_mesh",
      "fill_mesh_if_needed", "extrude_mesh", "export_selected">>

\* the pipeline stage a call of main belongs to; both importers are stage 2
StageOf ==
    [op \in Range(StageCalls) |->
        LET k == CHOOSE j \in 1..Len(StageCalls) : StageCalls[j] = op
        IN  IF k <= 2 THEN k ELSE k - 1]

\* the stages of file i in the order of their calls
Stages(i) ==
    LET fn == SelectSeq(calls[i], LAMBDA op : op \in DOMAIN StageOf)
    IN  [k \in 1..Len(fn) |-> StageOf[fn[k]]]

\* how many times stage s occurs in the stage sequence st
StageCount(st, s) == Cardinality({ k \in 1..Len(st) : st[k] = s })

LastStage(st) == IF st = <<>> THEN 0 ELSE st[Len(st)]

\* the full stage sequence of a file with m import calls and c configured curves
FullCycle(m, c) ==
    <<1>> \o [k \in 1..m |-> 2] \o [k \in 1..c |-> 3] \o <<4, 5, 6, 7, 8>>

\* the stage sequences in the fixed order with no stage skipped, each stage at
\* most once but import (at most twice) and fill-configure (once per curve), cut
\* at any point; the fill-configure loop makes no call when no object is a curve
OrderedCycles ==
    UNION { { SubSeq(FullCycle(m, c), 1, l) : l \in 0..Len(FullCycle(m, c)) } :
               m \in 1..2, c \in 0..MaxObjs }

\* the stages of file i come in the fixed order, none skipped, each at most
\* once (import twice only for the fallback of auto mode, fill-configure once
\* per imported curve); export only after convert returned a mesh and repair
\* and extrude ran; Skipped only after an empty import or a null join
StageOrder(i) ==
    \A st \in {Stages(i)} :
    /\ st \in OrderedCycles
    /\ StageCount(st, 2) = 2 =>
          /\ mode = ModeAuto /\ yield[i].curve = 0
          /\ ImportCalls(i) = <<"import_svg_as_curve", "import_svg_as_grease_pencil">>
    /\ 3 \in Range(st) => StageCount(st, 3) <= yield[i].set
    /\ 8 \in Range(st) =>
          /\ \A s \in 4..8 : StageCount(st, s) = 1
          /\ i = idx => (mesh # None /\ bpy.objects[mesh].type = "MESH")
    /\ outcome[i] = SkippedNoImport => (LastStage(st) = 2 /\ yield[i].set = 0)
    /\ outcome[i] = "Skipped: join failed" => (LastStage(st) = 4 /\ joined = None)
    /\ outcome[i] = "Exported" => LastStage(st) = 8

\* an error ended the cycle of file i
Errored(i) == pc = "raised" /\ idx = i

Leftovers == { o \in DOMAIN bpy.objects : bpy.objects[o].owner = 0 }

\* the objects that are in the scene a but not in the scene b
Added(a, b) == IdList(DOMAIN a.objects \ DOMAIN b.objects)

\* C18: the set handed to fill-configure and to join_objects is exactly the
\* objects present after the file's last import call and absent from the
\* snapshot taken just before that call; an object that reset_scene left in the
\* scene is never configured, joined, converted or exported with the file.
C18_ImportScoping ==
    /\ pc \in {"import", "import2"} =>
          \A hc \in ValidCurveYields, hg \in ValidGpYields :
             LET c == ImportSvgAsCurve(bpy, idx, hc)
                 g == ImportSvgAsGreasePencil(bpy, idx, hasGP, hc, hg)
             IN  /\ c.result = Added(c.bpy, bpy)
                 /\ g.result = Added(g.bpy, bpy)
    /\ pc \in {"check", "configure", "join"} =>
          /\ imported = IdList(Owned(idx))
          /\ Range(imported) \cap Leftovers = {}
    /\ pc \notin {"main", "reset"} /\ idx > 0 =>
          /\ Leftovers = bpy.unselectable
          /\ joined \notin Leftovers /\ mesh \notin Leftovers
          /\ bpy.selected \cap Leftovers = {} /\ bpy.active \notin Leftovers
          /\ \A o \in Leftovers :
                bpy.objects[o] =
                   [type |-> "CURVE", owner |-> 0, data |-> RawData, geom |-> <<>>]
    /\ \A p \in DOMAIN artifacts :
          /\ artifacts[p].objects \cap bpy.unselectable = {}
          /\ artifacts[p].active \notin bpy.unselectable

\* two imported objects were joined, converted and are about to be exported
\* while an object that reset_scene could not delete is still in the scene
C18_Witness ==
    /\ pc = "export"
    /\ Leftovers = {1}
    /\ Len(imported) = 2
    /\ bpy.selected = {mesh} /\ mesh # 1
    /\ bpy.objects[mesh].type = "MESH"

\* ---------- C19 ----------
\* the SVG names of DirUniverse in ascending order of their code points
\* (upper-case letters come before lower-case ones)
AscendingNames ==
    << <<"a", ".", "S", "V", "G">>, <<"a", ".", "s", "v", "g">>,
       <<"b", ".", "s", "v", "g">> >>

\* the file has reached a terminal state
Terminal(i) == outcome[i] \in {"Exported", SkippedNoImport, "Skipped: join failed"}

\* C19: the files are processed one at a time in ascending lexicographic order
\* of their paths: when the reset of a file is invoked every file before it has
\* reached a terminal state and no file after it has been touched, the reset of
\* a file is invoked at most once, and the order is the sorted one whatever the
\* outcomes of the files are.
C19_OneAtATimeInOrder ==
    pc # "main" /\ inDirExists =>
        /\ svgs = SelectSeq(AscendingNames, LAMBDA p : p \in dir)
        /\ idx \in 0..Len(svgs)
        /\ \A i \in Files :
              /\ i < idx => (Terminal(i) /\ Count(i, "reset_scene") = 1)
              /\ i = idx => Count(i, "reset_scene") = (IF pc = "reset" THEN 0 ELSE 1)
              /\ i > idx => (calls[i] = <<>> /\ outcome[i] = "")
              /\ (i = idx /\ pc \notin {"for", "done"}) => ~Terminal(i)

\* the reset of a.svg is about to run after a.SVG was skipped
C19_Witness ==
    /\ pc = "reset" /\ idx = 2
    /\ svgs[1] = <<"a", ".", "S", "V", "G">> /\ svgs[2] = <<"a", ".", "s", "v", "g">>
    /\ outcome[1] = SkippedNoImport
    /\ calls[2] = <<>>

\* ---------- C20 ----------
\* C20: main calls join_objects only with a non-empty list whose objects are all
\* still in the scene: the filter of null and removed references drops nothing,
\* the result is not null, and no file ever takes the 'Join failed, skipping'
\* exit.
C20_JoinNeverNull ==
    /\ pc \in {"configure", "join"} =>
          /\ imported # <<>>
          /\ None \notin Range(imported)
          /\ Range(imported) \subseteq DOMAIN bpy.objects
          /\ Live(bpy, imported) = imported
    /\ pc = "join" => JoinObjects(bpy, imported).result # None
    /\ \A i \in Files :
          /\ outcome[i] # "Skipped: join failed"
          /\ "join_objects" \in Ops(i) => (yield[i].set > 0 /\ (i < idx \/ pc # "join"))
    /\ pc \in {"convert", "repair", "extrude", "select", "export"} => joined # None

\* join_objects was called for the second file with two live objects and
\* returned one of them
C20_Witness ==
    /\ pc = "convert" /\ idx = 2
    /\ Len(imported) = 2
    /\ "join_objects" \in Ops(2)
    /\ joined \in DOMAIN bpy.objects

============================================================================
